---------------------------- MODULE Spec2Model ----------------------------
(***************************************************************************)
(* limdberator storage layer: the SharedConnection transaction gate, the   *)
(* schema, the insert-or-reuse primitive insert_with_change and the two    *)
(* extractors store_scraped_title / store_scraped_person                   *)
(* (src/limdberator/database.py).                                          *)
(*                                                                         *)
(* The store is the single sqlite3 connection.  `db` is what the           *)
(* connection sees, `journal` is the image SQLite restores on ROLLBACK,    *)
(* `inTxn` says whether a transaction is open on the connection.           *)
(* Every SQL statement may fail (I/O error, busy database, full disk); a   *)
(* failing statement either leaves the transaction open (statement abort)  *)
(* or makes SQLite roll the whole transaction back on its own, after       *)
(* which an explicit ROLLBACK fails ("no transaction is active").          *)
(*                                                                         *)
(* Callers are coroutines.  The model lets the event loop switch callers   *)
(* between any two statements of a scope, which covers the scheduling of   *)
(* the program (whose scope bodies contain no await) and any body that     *)
(* does await.                                                             *)
(***************************************************************************)
EXTENDS Integers, Sequences, FiniteSets, TLC

\* Number of concurrent ingestion calls (HTTP requests) of a run.
NumCallers == 3

Callers == 1..NumCallers

\* Python None, stored as SQL NULL.
NULL == "NULL"

--------------------------------------------------------------------------
(* Helpers *)

Max(S) == CHOOSE x \in S : \A y \in S : y <= x

Range(s) == {s[i] : i \in 1..Len(s)}

RECURSIVE Flatten(_)
Flatten(ss) == IF ss = <<>> THEN <<>> ELSE Head(ss) \o Flatten(Tail(ss))

--------------------------------------------------------------------------
(* Schema: init_database *)

FactTables == {"title_info", "title_tags", "people_info", "credits", "credit_tags"}

\* Columns under each fact table's UNIQUE(...) constraint.
UniqueCols(table) ==
    CASE table = "title_info"  -> {"title_id", "key", "value"}
      [] table = "title_tags"  -> {"title_id", "tag"}
      [] table = "people_info" -> {"person_id", "key", "value"}
      [] table = "credits"     -> {"title_id", "credit_type", "person_id"}
      [] table = "credit_tags" -> {"title_id", "person_id", "tag"}

\* Columns declared NOT NULL (change_id, the INTEGER PRIMARY KEY, aside).
NotNullCols(table) ==
    CASE table = "title_info"  -> {"title_id", "key", "value"}
      [] table = "title_tags"  -> {"title_id"}
      [] table = "people_info" -> {"person_id", "key", "value"}
      [] table = "credits"     -> {"title_id", "person_id"}
      [] table = "credit_tags" -> {"title_id", "person_id"}

\* A table as CREATE TABLE leaves it: "changes" has no key and keeps its
\* rows in rowid order, every other table is a set of rows.
EmptyTable(t) == IF t = "changes" THEN <<>> ELSE {}

AllTables == {"scrapes", "_changes", "changes"} \cup FactTables

\* Faulty variant: CREATE TABLE after DROP TABLE IF EXISTS: every table is
\* created anew.
init_database_Recreates(d) ==
    [t \in AllTables |-> EmptyTable(t)]

\* CREATE TABLE IF NOT EXISTS for the eight tables: an existing table is
\* left as it is.
init_database(d) ==
    [t \in AllTables |-> IF t \in DOMAIN d THEN d[t] ELSE EmptyTable(t)]

\* The database file before the first start: no tables.
NoTables == [t \in {} |-> {}]

--------------------------------------------------------------------------
(* SQL semantics used by the statements *)

\* Faulty variant: NULL-safe comparison, as IS would compare.
SqlEq_NullSafe(a, b) == a = b

\* a = b in a WHERE clause: never true when either side is NULL.
SqlEq(a, b) == a # NULL /\ b # NULL /\ a = b

\* rowid SQLite gives a row inserted with a NULL INTEGER PRIMARY KEY.
NextRowid(ids) == IF ids = {} THEN 1 ELSE Max(ids) + 1

\* Whether INSERT of `r` into fact table `table` violates a constraint:
\* the primary key, a NOT NULL column, or UNIQUE (where NULLs are distinct).
\* REFERENCES clauses are not enforced: the connection never sets
\* PRAGMA foreign_keys.
ConstraintFails(d, table, r) ==
    \/ \E x \in d[table] : x["change_id"] = r["change_id"]
    \/ \E c \in NotNullCols(table) : r[c] = NULL
    \/ \E x \in d[table] : \A c \in UniqueCols(table) : SqlEq(x[c], r[c])

--------------------------------------------------------------------------
(* Statements of database.py.  Each operator takes the store `d` and the  *)
(* number `fp` of the statement that fails (0: none) and returns the new  *)
(* store with "ok"; a failed statement changes nothing, the statements    *)
(* before it keep their effect.                                           *)

\* Faulty variant: cursor.lastrowid read before the INSERT: the id returned is
\* the one of the scrape before (0 on an empty table).
insert_new_scrape_StaleRowid(d, timestamp, fp) ==
    LET id == NextRowid({s.id : s \in d["scrapes"]})
    IN  IF fp = 1
        THEN [db |-> d, ok |-> FALSE, id |-> 0]
        ELSE [db |-> [d EXCEPT !["scrapes"] = @ \cup {[id |-> id, timestamp |-> timestamp]}],
              ok |-> TRUE, id |-> id - 1]

\* insert_new_scrape: one INSERT; the new id is cursor.lastrowid.
insert_new_scrape(d, timestamp, fp) ==
    LET id == NextRowid({s.id : s \in d["scrapes"]})
    IN  IF fp = 1
        THEN [db |-> d, ok |-> FALSE, id |-> 0]
        ELSE [db |-> [d EXCEPT !["scrapes"] = @ \cup {[id |-> id, timestamp |-> timestamp]}],
              ok |-> TRUE, id |-> id]

\* Faulty variant: INSERT OR REPLACE keyed by the change id: the new link takes
\* the place of the links the change had.
InsertLink_Replaces(d, change_id, scrape_id) ==
    [d EXCEPT !["changes"] = Append(SelectSeq(@, LAMBDA l : l.id # change_id),
                                    [id |-> change_id, scrape_id |-> scrape_id])]

\* INSERT INTO changes (id, scrape_id): the link of a scrape to a change.
InsertLink(d, change_id, scrape_id) ==
    [d EXCEPT !["changes"] = Append(@, [id |-> change_id, scrape_id |-> scrape_id])]

\* Faulty variant: INSERT INTO _changes executed twice; the second id is used.
insert_new_change_MintsTwice(d, scrape_id, fp) ==
    LET change_id == NextRowid(d["_changes"]) + 1
        d1 == [d EXCEPT !["_changes"] = @ \cup {change_id - 1, change_id}]
    IN  IF fp = 1 THEN [db |-> d, ok |-> FALSE, id |-> 0]
        ELSE IF fp = 2 THEN [db |-> d1, ok |-> FALSE, id |-> 0]
        ELSE [db |-> InsertLink(d1, change_id, scrape_id), ok |-> TRUE, id |-> change_id]

\* Faulty variant: the new change is minted and not linked to the scrape.
insert_new_change_NoLink(d, scrape_id, fp) ==
    LET change_id == NextRowid(d["_changes"])
        d1 == [d EXCEPT !["_changes"] = @ \cup {change_id}]
    IN  IF fp = 1 THEN [db |-> d, ok |-> FALSE, id |-> 0]
        ELSE IF fp = 2 THEN [db |-> d1, ok |-> FALSE, id |-> 0]
        ELSE [db |-> d1, ok |-> TRUE, id |-> change_id]

\* insert_new_change: statement 1 mints the id in _changes, statement 2
\* links it to the scrape.
insert_new_change(d, scrape_id, fp) ==
    LET change_id == NextRowid(d["_changes"])
        d1 == [d EXCEPT !["_changes"] = @ \cup {change_id}]
    IN  IF fp = 1 THEN [db |-> d, ok |-> FALSE, id |-> 0]
        ELSE IF fp = 2 THEN [db |-> d1, ok |-> FALSE, id |-> 0]
        ELSE [db |-> InsertLink(d1, change_id, scrape_id), ok |-> TRUE, id |-> change_id]

\* Rows the SELECT ... WHERE c1=? AND c2=? ... of insert_with_change matches.
Matching(d, table, row) ==
    {x \in d[table] : \A c \in DOMAIN row : SqlEq(x[c], row[c])}

\* LIMIT 1: the row the SELECT returns first.
FirstMatch(d, table, row) ==
    CHOOSE x \in Matching(d, table, row) :
        \A y \in Matching(d, table, row) : x["change_id"] <= y["change_id"]

\* Statements insert_with_change executes for `row`: SELECT and the link, or
\* SELECT, the two of insert_new_change and the fact row's INSERT.
NumStatements(d, table, row) == IF Matching(d, table, row) # {} THEN 2 ELSE 4

\* Faulty variant: the match is ignored: a new change is minted and linked for a
\* row that exists, and no row is inserted for it.
insert_with_change_AlwaysMints(d, scrape_id, table, row, fp) ==
    IF fp = 1 THEN [db |-> d, ok |-> FALSE]
    ELSE LET new == insert_new_change(d, scrape_id, IF fp = 0 THEN 0 ELSE fp - 1)
             r   == row @@ ("change_id" :> new.id)
         IN  IF ~new.ok THEN [db |-> new.db, ok |-> FALSE]
             ELSE IF Matching(d, table, row) # {} THEN [db |-> new.db, ok |-> TRUE]
             ELSE IF fp = 4 \/ ConstraintFails(new.db, table, r)
             THEN [db |-> new.db, ok |-> FALSE]
             ELSE [db |-> [new.db EXCEPT ![table] = @ \cup {r}], ok |-> TRUE]

\* Faulty variant: the fact row is keyed by scrape_id instead of the new change_id.
insert_with_change_WrongKey(d, scrape_id, table, row, fp) ==
    IF fp = 1 THEN [db |-> d, ok |-> FALSE]
    ELSE IF Matching(d, table, row) # {}
    THEN IF fp = 2 THEN [db |-> d, ok |-> FALSE]
         ELSE [db |-> InsertLink(d, FirstMatch(d, table, row)["change_id"], scrape_id),
               ok |-> TRUE]
    ELSE LET new == insert_new_change(d, scrape_id, IF fp = 0 THEN 0 ELSE fp - 1)
             r   == row @@ ("change_id" :> scrape_id)
         IN  IF ~new.ok THEN [db |-> new.db, ok |-> FALSE]
             ELSE IF fp = 4 \/ ConstraintFails(new.db, table, r)
             THEN [db |-> new.db, ok |-> FALSE]
             ELSE [db |-> [new.db EXCEPT ![table] = @ \cup {r}], ok |-> TRUE]

\* Faulty variant: a matched row that the scrape is linked to already gets no
\* second link (INSERT OR IGNORE on a unique link).
insert_with_change_SkipsRepeat(d, scrape_id, table, row, fp) ==
    IF fp = 1 THEN [db |-> d, ok |-> FALSE]
    ELSE IF Matching(d, table, row) # {}
    THEN IF fp = 2 THEN [db |-> d, ok |-> FALSE]
         ELSE IF [id |-> FirstMatch(d, table, row)["change_id"],
                  scrape_id |-> scrape_id] \in Range(d["changes"])
         THEN [db |-> d, ok |-> TRUE]
         ELSE [db |-> InsertLink(d, FirstMatch(d, table, row)["change_id"], scrape_id),
               ok |-> TRUE]
    ELSE LET new == insert_new_change(d, scrape_id, IF fp = 0 THEN 0 ELSE fp - 1)
             r   == row @@ ("change_id" :> new.id)
         IN  IF ~new.ok THEN [db |-> new.db, ok |-> FALSE]
             ELSE IF fp = 4 \/ ConstraintFails(new.db, table, r)
             THEN [db |-> new.db, ok |-> FALSE]
             ELSE [db |-> [new.db EXCEPT ![table] = @ \cup {r}], ok |-> TRUE]

\* insert_with_change(cursor, scrape_id, table, row)
insert_with_change(d, scrape_id, table, row, fp) ==
    IF fp = 1 THEN [db |-> d, ok |-> FALSE]
    ELSE IF Matching(d, table, row) # {}
    THEN \* equal row exists...
         IF fp = 2 THEN [db |-> d, ok |-> FALSE]
         ELSE [db |-> InsertLink(d, FirstMatch(d, table, row)["change_id"], scrape_id),
               ok |-> TRUE]
    ELSE \* ...otherwise insert with a new change_id
         LET new == insert_new_change(d, scrape_id, IF fp = 0 THEN 0 ELSE fp - 1)
             r   == row @@ ("change_id" :> new.id)
         IN  IF ~new.ok THEN [db |-> new.db, ok |-> FALSE]
             ELSE IF fp = 4 \/ ConstraintFails(new.db, table, r)
             THEN [db |-> new.db, ok |-> FALSE]
             ELSE [db |-> [new.db EXCEPT ![table] = @ \cup {r}], ok |-> TRUE]

--------------------------------------------------------------------------
(* Entity extractors: the facts a document emits, in the order the code   *)
(* passes them to insert_with_change.                                     *)

Fact(table, row) == [table |-> table, row |-> row]

\* A body step that raises without executing SQL: credit["title_info"]["tags"]
\* on a title_info without "tags" (FilmCreditTitleInfo is total=False).
KeyError == [table |-> "KeyError", row |-> [key |-> "tags"]]

TitleKeys == <<"title", "original_title", "rating", "rating_count", "year", "duration">>

\* d.get(key) or []
GetList(d, key) == IF key \in DOMAIN d THEN d[key] ELSE <<>>

\* ",".join(ss)
RECURSIVE Join(_)
Join(ss) ==
    IF Len(ss) = 1 THEN Head(ss) ELSE Head(ss) \o "," \o Join(Tail(ss))

\* Faulty variant: the languages in one row, joined into a single value.
gen_title_info_data_Joined(scrape) ==
    Flatten([i \in 1..Len(TitleKeys) |->
                IF TitleKeys[i] \in DOMAIN scrape
                THEN << [title_id |-> scrape.id, key |-> TitleKeys[i],
                         value |-> scrape[TitleKeys[i]]] >>
                ELSE <<>>])
    \o (IF GetList(scrape, "languages") = <<>> THEN <<>>
        ELSE << [title_id |-> scrape.id, key |-> "language",
                 value |-> Join(GetList(scrape, "languages"))] >>)

\* gen_title_info_data: rows for title_info
gen_title_info_data(scrape) ==
    Flatten([i \in 1..Len(TitleKeys) |->
                IF TitleKeys[i] \in DOMAIN scrape
                THEN << [title_id |-> scrape.id, key |-> TitleKeys[i],
                         value |-> scrape[TitleKeys[i]]] >>
                ELSE <<>>])
    \o [i \in 1..Len(GetList(scrape, "languages")) |->
            [title_id |-> scrape.id, key |-> "language",
             value |-> GetList(scrape, "languages")[i]]]

\* Faulty variant: the cast's credits carry credit_type "cast", a value of the
\* title extractor's own.
TitleFacts_CastType(scrape) ==
    [i \in 1..Len(gen_title_info_data(scrape)) |->
        Fact("title_info", gen_title_info_data(scrape)[i])]
    \o Flatten([i \in 1..Len(GetList(scrape, "cast")) |->
        LET person_id == GetList(scrape, "cast")[i][1]
            name      == GetList(scrape, "cast")[i][2]
        IN  << Fact("people_info", [person_id |-> person_id, key |-> "name", value |-> name]),
               Fact("credits", [title_id |-> scrape.id, credit_type |-> "cast",
                                person_id |-> person_id]) >>])

\* Facts of store_scraped_title, after its insert_new_scrape.
TitleFacts(scrape) ==
    [i \in 1..Len(gen_title_info_data(scrape)) |->
        Fact("title_info", gen_title_info_data(scrape)[i])]
    \o Flatten([i \in 1..Len(GetList(scrape, "cast")) |->
        LET person_id == GetList(scrape, "cast")[i][1]
            name      == GetList(scrape, "cast")[i][2]
        IN  << Fact("people_info", [person_id |-> person_id, key |-> "name", value |-> name]),
               Fact("credits", [title_id |-> scrape.id, credit_type |-> "actor",
                                person_id |-> person_id]) >>])

\* The minimal title document store_scraped_person builds for one credit.
CreditTitleInfo(title_id, info) ==
    LET base == [id |-> title_id, timestamp |-> -1]
        t    == IF "title" \in DOMAIN info THEN ("title" :> info["title"]) ELSE NoTables
        y    == IF "year" \in DOMAIN info THEN ("year" :> info["year"]) ELSE NoTables
    IN  base @@ t @@ y

\* Faulty variant: `for credit_type in credit_types` without `or [None]`: an
\* empty credit_type list emits no credits fact.
CreditFacts_SkipsUntyped(person_id, credit) ==
    LET title_id     == credit.title_id
        credit_types == credit.credit_type
    IN  [i \in 1..Len(credit_types) |->
            Fact("credits", [title_id |-> title_id, credit_type |-> credit_types[i],
                             person_id |-> person_id])]
        \o [i \in 1..Len(credit.tags) |->
            Fact("credit_tags", [title_id |-> title_id, person_id |-> person_id,
                                 tag |-> credit.tags[i]])]
        \o [i \in 1..Len(gen_title_info_data(CreditTitleInfo(title_id, credit.title_info))) |->
            Fact("title_info",
                 gen_title_info_data(CreditTitleInfo(title_id, credit.title_info))[i])]
        \o (IF "tags" \in DOMAIN credit.title_info
            THEN [i \in 1..Len(credit.title_info.tags) |->
                    Fact("title_tags", [title_id |-> title_id,
                                        tag |-> credit.title_info.tags[i]])]
            ELSE <<KeyError>>)

\* Facts of one filmography entry (title_id, credit).
CreditFacts(person_id, credit) ==
    LET title_id     == credit.title_id
        credit_types == IF credit.credit_type = <<>> THEN <<NULL>> ELSE credit.credit_type
    IN  [i \in 1..Len(credit_types) |->
            Fact("credits", [title_id |-> title_id, credit_type |-> credit_types[i],
                             person_id |-> person_id])]
        \o [i \in 1..Len(credit.tags) |->
            Fact("credit_tags", [title_id |-> title_id, person_id |-> person_id,
                                 tag |-> credit.tags[i]])]
        \o [i \in 1..Len(gen_title_info_data(CreditTitleInfo(title_id, credit.title_info))) |->
            Fact("title_info",
                 gen_title_info_data(CreditTitleInfo(title_id, credit.title_info))[i])]
        \o (IF "tags" \in DOMAIN credit.title_info
            THEN [i \in 1..Len(credit.title_info.tags) |->
                    Fact("title_tags", [title_id |-> title_id,
                                        tag |-> credit.title_info.tags[i]])]
            ELSE <<KeyError>>)

\* The steps up to and including the first one that raises.
RECURSIVE UpToRaise(_)
UpToRaise(steps) ==
    IF steps = <<>> THEN <<>>
    ELSE IF Head(steps) = KeyError THEN <<KeyError>>
    ELSE <<Head(steps)>> \o UpToRaise(Tail(steps))

\* Facts of store_scraped_person, after its insert_new_scrape.
PersonFacts(scrape) ==
    UpToRaise(
        Flatten([i \in 1..2 |->
            LET key == <<"name", "birthday">>[i]
            IN  IF key \in DOMAIN scrape
                THEN << Fact("people_info", [person_id |-> scrape.id, key |-> key,
                                             value |-> scrape[key]]) >>
                ELSE <<>>])
        \o Flatten([i \in 1..Len(GetList(scrape, "filmography")) |->
            CreditFacts(scrape.id, GetList(scrape, "filmography")[i])]))

\* post (web.py): a validated ScrapeResult is a title or a person.
IsTitle(data) == "title" \in DOMAIN data
Scrape(data) == IF IsTitle(data) THEN data.title ELSE data.person
Facts(data) == IF IsTitle(data) THEN TitleFacts(data.title) ELSE PersonFacts(data.person)

--------------------------------------------------------------------------
(* Documents the transport hands to the extractors (validated against     *)
(* ScrapeResult, types.py), without their timestamp.                       *)

\* A FilmCreditTitleInfo with none of its (optional) keys.
NoTitleInfo == [k \in {} |-> ""]

TitleFoo ==
    [title |-> [id |-> "tt1", title |-> "Foo", cast |-> << <<"nm1", "Alice">> >>]]

TitleLanguages ==
    [title |-> [id |-> "tt1", languages |-> <<"en", "fr">>,
                cast |-> << <<"nm1", "Alice">>, <<"nm1", "Alice">> >>]]

PersonAlice ==
    [person |-> [id |-> "nm1", name |-> "Alice",
                 filmography |-> << [title_id |-> "tt1", credit_type |-> <<"actor">>,
                                     tags |-> <<>>,
                                     title_info |-> [title |-> "Foo", tags |-> <<"cult">>]] >>]]

PersonUntyped ==
    [person |-> [id |-> "nm1",
                 filmography |-> << [title_id |-> "tt1", credit_type |-> <<>>,
                                     tags |-> <<"uncredited">>,
                                     title_info |-> [year |-> "1999", tags |-> <<>>]] >>]]

PersonNoTags ==
    [person |-> [id |-> "nm1",
                 filmography |-> << [title_id |-> "tt1", credit_type |-> <<"actor">>,
                                     tags |-> <<>>,
                                     title_info |-> NoTitleInfo] >>]]

Documents == {TitleFoo, TitleLanguages, PersonAlice, PersonUntyped, PersonNoTags}

\* The document with its timestamp.
WithTimestamp(data, ts) ==
    IF IsTitle(data)
    THEN [title |-> ("timestamp" :> ts) @@ data.title]
    ELSE [person |-> ("timestamp" :> ts) @@ data.person]

\* The request of caller p: a document scraped at time p (callers are
\* numbered in the order of their requests).
Requests(p) == {WithTimestamp(d, p) : d \in Documents}

--------------------------------------------------------------------------
(* State *)

VARIABLES
    db,         \* the tables as the connection sees them
    journal,    \* the tables ROLLBACK restores (the store as last committed)
    inTxn,      \* a transaction is open on the connection
    cursor,     \* SharedConnection.cursor: "None" or "Cursor"
    locked,     \* SharedConnection.lock: asyncio.Lock._locked
    waiters,    \* asyncio.Lock._waiters: callers suspended in acquire(), in order
    woken,      \* waiters whose future release() has completed
    pc,         \* where each caller is
    data,       \* the request each caller stores ("none" before post)
    steps,      \* the steps of each caller's scope body after the scrape: Facts(data)
    scrape_id,  \* each caller's scrape_id (0 before insert_new_scrape)
    done,       \* how many of its steps each caller has passed on
    exc,        \* an exception is propagating out of the caller's scope body
    outcome,    \* "none", or how the store_scraped_* call ended: "returned", "raised"
    log,        \* [caller, data, scrape_id] of each successful COMMIT, in order
    pre,        \* the committed store when the scope in progress began
    acquired,   \* callers in the order they acquired the lock
    exited,     \* callers in the order their scope released the lock
    last        \* the call that ended last: its caller, the statement that ended
                \* its scope ("how") and the facts it had passed on by then

vars == <<db, journal, inTxn, cursor, locked, waiters, woken, pc, data, steps,
          scrape_id, done, exc, outcome, log, pre, acquired, exited, last>>

conn  == <<db, journal, inTxn>>
lock  == <<locked, waiters, woken>>
local == <<data, steps, scrape_id, done, exc>>
ghost == <<log, pre, acquired, exited, last>>

\* The committed store: what a ROLLBACK, or a reader outside the
\* transaction, sees.
Committed == IF inTxn THEN journal ELSE db

\* Callers inside the gate's scope: between lock.acquire() returning and
\* lock.release().
ScopeStates == {"aenter", "scrape", "facts", "aexit"}
InScope(p) == pc[p] \in ScopeStates

Init ==
    /\ db = init_database(NoTables)
    /\ journal = init_database(NoTables)
    /\ inTxn = FALSE
    /\ cursor = "None"
    /\ locked = FALSE
    /\ waiters = <<>>
    /\ woken = {}
    /\ pc = [p \in Callers |-> "idle"]
    /\ data = [p \in Callers |-> "none"]
    /\ steps = [p \in Callers |-> <<>>]
    /\ scrape_id = [p \in Callers |-> 0]
    /\ done = [p \in Callers |-> 0]
    /\ exc = [p \in Callers |-> FALSE]
    /\ outcome = [p \in Callers |-> "none"]
    /\ log = <<>>
    /\ pre = init_database(NoTables)
    /\ acquired = <<>>
    /\ exited = <<>>
    /\ last = [caller |-> 0, how |-> "none", facts |-> 0]

--------------------------------------------------------------------------
(* asyncio.Lock, as SharedConnection uses it *)

\* Faulty variant: acquire() that looks at the waiters only, not at _locked.
CanAcquire_IgnoresLocked == waiters = <<>>

\* acquire() returns at once: the lock is free and nobody waits for it.
CanAcquire == ~locked /\ waiters = <<>>

\* Faulty variant: release() that unlocks and wakes nobody.
WakeUpFirst_WakesNobody == woken

\* Faulty variant: release() that wakes the waiter that came last.
WakeUpFirst_WakesLast ==
    IF waiters # <<>> THEN woken \cup {waiters[Len(waiters)]} ELSE woken

\* release(): unlock and complete the first waiter's future.
WakeUpFirst == IF waiters # <<>> THEN woken \cup {Head(waiters)} ELSE woken

release ==
    /\ locked' = FALSE
    /\ woken' = WakeUpFirst
    /\ UNCHANGED waiters

\* Faulty variant: __aexit__ without try/finally: an exception out of ROLLBACK
\* skips the release.
ReleasedAfter_NoFinally(how) == how # "ROLLBACK failed"

\* Whether the scope's end `how` reaches `self.cursor = None;
\* self.lock.release()`: the except clause of __aenter__ and the finally
\* clause of __aexit__ run on every path.
ReleasedAfter(how) == TRUE

--------------------------------------------------------------------------
(* Actions *)

\* The coroutine's frame: kept while the call runs, gone when it ends.
Return(p, running) ==
    IF running
    THEN UNCHANGED local
    ELSE /\ data' = [data EXCEPT ![p] = "none"]
         /\ steps' = [steps EXCEPT ![p] = <<>>]
         /\ scrape_id' = [scrape_id EXCEPT ![p] = 0]
         /\ done' = [done EXCEPT ![p] = 0]
         /\ exc' = [exc EXCEPT ![p] = FALSE]

\* post (web.py) calls store_scraped_title or store_scraped_person, which
\* runs up to `await self.lock.acquire()`: the caller takes a free lock or
\* is suspended at the end of the waiters.  Callers are numbered in the
\* order of their requests.
post(p) ==
    /\ pc[p] = "idle"
    /\ \A q \in Callers : q < p => pc[q] # "idle"
    /\ \E r \in Requests(p) :
        /\ data' = [data EXCEPT ![p] = r]
        /\ steps' = [steps EXCEPT ![p] = Facts(r)]
    /\ IF CanAcquire
       THEN /\ locked' = TRUE
            /\ pc' = [pc EXCEPT ![p] = "aenter"]
            /\ acquired' = Append(acquired, p)
            /\ UNCHANGED <<waiters, woken>>
       ELSE /\ waiters' = Append(waiters, p)
            /\ pc' = [pc EXCEPT ![p] = "waiting"]
            /\ UNCHANGED <<locked, woken, acquired>>
    /\ UNCHANGED <<conn, cursor, scrape_id, done, exc, outcome, log, pre, exited, last>>

\* A woken waiter resumes in acquire(): it leaves the waiters and locks.
wakeup(p) ==
    /\ pc[p] = "waiting"
    /\ p \in woken
    /\ waiters' = SelectSeq(waiters, LAMBDA q : q # p)
    /\ woken' = woken \ {p}
    /\ locked' = TRUE
    /\ pc' = [pc EXCEPT ![p] = "aenter"]
    /\ acquired' = Append(acquired, p)
    /\ UNCHANGED <<conn, cursor, local, outcome, log, pre, exited, last>>

\* __aenter__ after acquire(): conn.cursor() and BEGIN.  step 0: both
\* succeed; 1: conn.cursor() raises; 2: BEGIN raises.  BEGIN also fails
\* inside an open transaction.
aenter(p) ==
    /\ pc[p] = "aenter"
    /\ \E step \in 0..2 :
        IF step = 0 /\ ~inTxn
        THEN /\ cursor' = "Cursor"
             /\ inTxn' = TRUE
             /\ journal' = db
             /\ pre' = db
             /\ pc' = [pc EXCEPT ![p] = "scrape"]
             /\ UNCHANGED <<db, lock, outcome, exited, last>>
        ELSE /\ IF ReleasedAfter("BEGIN")
                THEN cursor' = "None" /\ release
                ELSE UNCHANGED <<cursor, lock>>
             /\ pc' = [pc EXCEPT ![p] = "done"]
             /\ outcome' = [outcome EXCEPT ![p] = "raised"]
             /\ exited' = Append(exited, p)
             /\ last' = [caller |-> p, how |-> IF step = 1 THEN "cursor" ELSE "BEGIN",
                         facts |-> 0]
             /\ UNCHANGED <<conn, pre>>
    /\ Return(p, inTxn' /\ pc'[p] = "scrape")
    /\ UNCHANGED <<log, acquired>>

\* What a failed statement leaves: "abort" undoes the statement alone,
\* "rollback" makes SQLite roll the transaction back on its own.
FailureKinds == {"abort", "rollback"}

\* The connection after a body statement: `res` is the operator's result.
AfterStatement(res, kind) ==
    IF res.ok \/ kind = "abort"
    THEN /\ db' = res.db
         /\ UNCHANGED <<journal, inTxn>>
    ELSE /\ db' = journal
         /\ inTxn' = FALSE
         /\ UNCHANGED journal

\* scrape_id = insert_new_scrape(cursor, scrape["timestamp"])
new_scrape(p) ==
    /\ pc[p] = "scrape"
    /\ \E fp \in 0..1, kind \in FailureKinds :
        LET res == insert_new_scrape(db, Scrape(data[p]).timestamp, fp)
        IN  /\ (fp = 0 => kind = "abort")
            /\ AfterStatement(res, kind)
            /\ scrape_id' = [scrape_id EXCEPT ![p] = res.id]
            /\ exc' = [exc EXCEPT ![p] = ~res.ok]
            /\ pc' = [pc EXCEPT ![p] =
                        IF res.ok /\ steps[p] # <<>> THEN "facts" ELSE "aexit"]
    /\ UNCHANGED <<cursor, lock, data, steps, done, outcome, ghost>>

\* The next step of the body: one insert_with_change, or the KeyError.
next_fact(p) ==
    /\ pc[p] = "facts"
    /\ LET f == steps[p][done[p] + 1]
       IN  IF f = KeyError
           THEN /\ exc' = [exc EXCEPT ![p] = TRUE]
                /\ pc' = [pc EXCEPT ![p] = "aexit"]
                /\ UNCHANGED <<conn, done>>
           ELSE \E fp \in 0..NumStatements(db, f.table, f.row) :
                \E res \in {insert_with_change(db, scrape_id[p], f.table, f.row, fp)} :
                \E kind \in FailureKinds :
                    /\ (fp = 0 => kind = "abort")
                    /\ AfterStatement(res, kind)
                    /\ exc' = [exc EXCEPT ![p] = ~res.ok]
                    /\ done' = [done EXCEPT ![p] = IF res.ok THEN @ + 1 ELSE @]
                    /\ pc' = [pc EXCEPT ![p] =
                                IF res.ok /\ done[p] + 1 < Len(steps[p])
                                THEN "facts" ELSE "aexit"]
    /\ UNCHANGED <<cursor, lock, data, steps, scrape_id, outcome, ghost>>

\* cursor.execute("ROLLBACK"): restores the journal; fails when no
\* transaction is active (SQLite has rolled it back already).
ROLLBACK(d, j, txn) ==
    IF txn THEN [db |-> j, inTxn |-> FALSE, ok |-> TRUE]
    ELSE [db |-> d, inTxn |-> FALSE, ok |-> FALSE]

\* cursor.execute("COMMIT"); `fail` is "none" or how the statement fails.
COMMIT(d, j, txn, fail) ==
    IF ~txn THEN [db |-> d, inTxn |-> FALSE, ok |-> FALSE]
    ELSE IF fail = "none" THEN [db |-> d, inTxn |-> FALSE, ok |-> TRUE]
    ELSE IF fail = "abort" THEN [db |-> d, inTxn |-> TRUE, ok |-> FALSE]
    ELSE [db |-> j, inTxn |-> FALSE, ok |-> FALSE]

\* Faulty variant: __aexit__ that ignores exc_type: COMMIT whatever the body did.
aexit_try_IgnoresException(d, j, txn, exc_type, fail) ==
    LET c     == COMMIT(d, j, txn, fail)
        after == IF c.ok THEN c ELSE ROLLBACK(c.db, j, c.inTxn)
    IN  [db |-> after.db, inTxn |-> after.inTxn,
         committed |-> c.ok,
         raised |-> exc_type \/ ~after.ok,
         how |-> IF c.ok THEN "COMMIT"
                 ELSE IF ~after.ok THEN "ROLLBACK failed"
                 ELSE "COMMIT failed"]

\* The try block of __aexit__: with an exception from the body (exc_type)
\* ROLLBACK, otherwise COMMIT and, when COMMIT raises, ROLLBACK.  "raised"
\* says whether the `async with` statement ends with an exception: the
\* body's (__aexit__ returns None, so it is re-raised) or ROLLBACK's.
aexit_try(d, j, txn, exc_type, fail) ==
    LET c     == COMMIT(d, j, txn, fail)
        after == IF exc_type THEN ROLLBACK(d, j, txn)
                 ELSE IF c.ok THEN c
                 ELSE ROLLBACK(c.db, j, c.inTxn)
    IN  [db |-> after.db, inTxn |-> after.inTxn,
         committed |-> ~exc_type /\ c.ok,
         raised |-> exc_type \/ ~after.ok,
         how |-> IF ~exc_type /\ c.ok THEN "COMMIT"
                 ELSE IF ~after.ok THEN "ROLLBACK failed"
                 ELSE IF exc_type THEN "ROLLBACK"
                 ELSE "COMMIT failed"]

\* __aexit__: the try block, then `finally`: cursor = None, lock.release().
aexit(p) ==
    /\ pc[p] = "aexit"
    /\ cursor # "None"
    /\ \E fail \in {"none"} \cup FailureKinds :
        \E res \in {aexit_try(db, journal, inTxn, exc[p], fail)} :
            /\ (exc[p] => fail = "none")
            /\ db' = res.db
            /\ inTxn' = res.inTxn
            /\ outcome' = [outcome EXCEPT ![p] = IF res.raised THEN "raised" ELSE "returned"]
            /\ log' = IF res.committed
                       THEN Append(log, [caller |-> p, data |-> data[p],
                                         scrape_id |-> scrape_id[p]])
                       ELSE log
            /\ last' = [caller |-> p, how |-> res.how, facts |-> done[p]]
            /\ IF ReleasedAfter(res.how)
               THEN cursor' = "None" /\ release
               ELSE UNCHANGED <<cursor, lock>>
    /\ pc' = [pc EXCEPT ![p] = "done"]
    /\ exited' = Append(exited, p)
    /\ Return(p, FALSE)
    /\ UNCHANGED <<journal, pre, acquired>>

Next ==
    \E p \in Callers :
        \/ post(p)
        \/ wakeup(p)
        \/ aenter(p)
        \/ new_scrape(p)
        \/ next_fact(p)
        \/ aexit(p)

Spec == Init /\ [][Next]_vars

\* A step of the event loop on behalf of a caller that is past its request:
\* the woken waiter resumes in acquire(), or the caller holding the lock
\* executes the next statement of its scope.  At most one caller can take
\* such a step at a time.
Progress ==
    \E p \in Callers :
        wakeup(p) \/ aenter(p) \/ new_scrape(p) \/ next_fact(p) \/ aexit(p)

\* The event loop runs every callback that is ready, and no scope body runs
\* for ever.  Requests (post) arrive as they please.
FairSpec == Spec /\ WF_vars(Progress)

--------------------------------------------------------------------------
(* Properties *)

\* Caller p's scope ends in this step (lock.release() of __aexit__).
ExitsScope(p) == pc[p] = "aexit" /\ pc'[p] = "done"

\* Caller p's COMMIT succeeds in this step.
Commits(p) == ExitsScope(p) /\ Len(log') = Len(log) + 1

\* Callers whose COMMIT has succeeded.
CommittedCallers == {log[i].caller : i \in 1..Len(log)}

NoCallerInScope == \A p \in Callers : ~InScope(p)

\* C1 (atomicity): when a call whose transaction has begun ends after a
\* failure (a statement of the body or the KeyError raised, or COMMIT
\* failed), the store is exactly the store committed before the call:
\* no row of the call is left, in the file or in the connection's view.
C1_Atomicity ==
    [][\A p \in Callers :
        (ExitsScope(p) /\ (exc[p] \/ ~Commits(p))) =>
            (db' = pre /\ ~inTxn' /\ Committed' = pre)]_vars

\* A call failed after passing on three facts and has ended: its rows are gone.
C1_Witness ==
    /\ last.how = "ROLLBACK"
    /\ last.facts >= 3
    /\ pc[last.caller] = "done"
    /\ db = pre
    /\ pre["scrapes"] # {}

\* C2 (mutual exclusion): at most one caller is inside the scope; the one
\* inside is the one that acquired the lock last and the lock is held; a
\* transaction is open only while a caller is inside; a caller waiting for
\* the lock has executed no statement (no scrape, no fact) and holds nothing.
C2_MutualExclusion ==
    /\ Cardinality({p \in Callers : InScope(p)}) <= 1
    /\ \A p \in Callers :
        InScope(p) => (locked /\ acquired # <<>> /\ acquired[Len(acquired)] = p)
    /\ (inTxn \/ cursor # "None") =>
        \E p \in Callers : pc[p] \in {"scrape", "facts", "aexit"}
    /\ \A p \in Callers :
        pc[p] \in {"idle", "waiting"} =>
            (scrape_id[p] = 0 /\ done[p] = 0 /\ p \notin Range(acquired))

\* One caller is in the middle of its facts while two others wait.
C2_Witness ==
    \E p \in Callers :
        /\ pc[p] = "facts"
        /\ done[p] >= 1
        /\ Len(waiters) >= 2

\* C3 (release on every exit path): whenever no caller is inside the scope
\* the lock is free and self.cursor is None, whatever ended the last scope
\* (COMMIT, ROLLBACK, a failed COMMIT, a failed ROLLBACK, a failed
\* conn.cursor() or BEGIN), and the next caller can take the lock: the
\* first waiter has been woken, or nobody waits and acquire() succeeds.
C3_LockReleased ==
    NoCallerInScope =>
        /\ ~locked
        /\ cursor = "None"
        /\ IF waiters # <<>> THEN Head(waiters) \in woken ELSE CanAcquire

\* A scope ended by a failing ROLLBACK left the lock free and woke a waiter.
C3_Witness ==
    /\ last.how = "ROLLBACK failed"
    /\ NoCallerInScope
    /\ ~locked
    /\ cursor = "None"
    /\ woken # {}

\* Rows of the fact's table with exactly the fact's column values
\* (NULL compared as a value).
SameFact(d, f) == {x \in d[f.table] : \A c \in DOMAIN f.row : x[c] = f.row[c]}

\* C4 (uniqueness): in the committed store no fact table holds two rows
\* with the same values in all columns other than change_id.
C4_Uniqueness ==
    \A t \in FactTables : \A x, y \in Committed[t] :
        (\A c \in UniqueCols(t) : x[c] = y[c]) => x = y

\* C5 (dedup identity): when a call commits, every fact it emitted that the
\* store already held (same table, same column values) is still a single
\* row with the change id it had, and the call's scrape is linked to that
\* change id.
C5_DedupIdentity ==
    [][\A p \in Callers : Commits(p) =>
        \A i \in 1..Len(Facts(data[p])) :
            LET f == Facts(data[p])[i]
            IN  SameFact(pre, f) # {} =>
                    /\ SameFact(db', f) = SameFact(pre, f)
                    /\ \E k \in 1..Len(db'["changes"]) :
                        /\ db'["changes"][k].scrape_id = scrape_id[p]
                        /\ \E x \in SameFact(pre, f) :
                            db'["changes"][k].id = x["change_id"]]_vars

\* C6 (error propagation): a call that returned normally has committed.
C6_ErrorPropagation ==
    \A p \in Callers : outcome[p] = "returned" => p \in CommittedCallers

\* The same title document, timestamps aside.
SameTitle(a, b) ==
    /\ IsTitle(a)
    /\ IsTitle(b)
    /\ WithTimestamp(a, 0) = WithTimestamp(b, 0)

\* Links of scrape sid, in rowid order, and the change ids of links.
LinksOf(d, sid) == SelectSeq(d["changes"], LAMBDA l : l.scrape_id = sid)
ChangeIds(links) == [i \in 1..Len(links) |-> links[i].id]

\* C7 (re-ingestion): when a title document commits that an earlier call
\* has committed already (with another timestamp), the fact tables and
\* _changes are what they were before the call, scrapes has one more row,
\* and the new links are as many as the first call's, all of the new
\* scrape, with the first call's change ids in the same order.
C7_Reingestion ==
    [][\A p \in Callers : \A i \in 1..Len(log) :
        (Commits(p) /\ SameTitle(log[i].data, data[p])) =>
            LET first == LinksOf(pre, log[i].scrape_id)
                new   == SubSeq(db'["changes"], Len(pre["changes"]) + 1, Len(db'["changes"]))
                row   == [id |-> scrape_id[p], timestamp |-> Scrape(data[p]).timestamp]
            IN  /\ \A t \in FactTables : db'[t] = pre[t]
                /\ db'["_changes"] = pre["_changes"]
                /\ row \notin pre["scrapes"]
                /\ db'["scrapes"] = pre["scrapes"] \cup {row}
                /\ Scrape(log[i].data).timestamp # row.timestamp
                /\ SubSeq(db'["changes"], 1, Len(pre["changes"])) = pre["changes"]
                /\ Len(new) = Len(first)
                /\ \A k \in 1..Len(new) : new[k].scrape_id = scrape_id[p]
                /\ ChangeIds(new) = ChangeIds(first)]_vars

\* The same title document has been committed twice, the second time last.
C7_Witness ==
    /\ Len(log) >= 2
    /\ last.how = "COMMIT"
    /\ last.caller = log[Len(log)].caller
    /\ \E i \in 1..(Len(log) - 1) : SameTitle(log[i].data, log[Len(log)].data)
    /\ Len(LinksOf(db, log[Len(log)].scrape_id)) >= 3

\* credits facts with an absent credit_type among the facts of a document.
NullCredits(r) ==
    Cardinality({i \in 1..Len(Facts(r)) :
        /\ Facts(r)[i].table = "credits"
        /\ Facts(r)[i].row["credit_type"] = NULL})

RECURSIVE SumNullCredits(_)
SumNullCredits(calls) ==
    IF calls = <<>> THEN 0
    ELSE NullCredits(Head(calls).data) + SumNullCredits(Tail(calls))

NullCreditRows(d) == {x \in d["credits"] : x["credit_type"] = NULL}

\* C8 (NULL non-dedup): every committed occurrence of a credits fact with
\* an absent credit_type has a credits row of its own with a change id of
\* its own: the committed store holds as many NULL-typed credits rows, and
\* as many change ids for them, as the committed calls emitted such facts.
C8_NullNonDedup ==
    /\ Cardinality(NullCreditRows(Committed)) = SumNullCredits(log)
    /\ Cardinality({x["change_id"] : x \in NullCreditRows(Committed)}) = SumNullCredits(log)

\* Two person scrapes with an empty credit_type list for the same title and
\* person are committed: two rows (tt1, NULL, nm1), two changes.
C8_Witness ==
    \E x, y \in NullCreditRows(Committed) :
        /\ x["change_id"] # y["change_id"]
        /\ x["title_id"] = y["title_id"]
        /\ x["person_id"] = y["person_id"]
        /\ {x["change_id"], y["change_id"]} \subseteq Committed["_changes"]

\* Fact rows, over the five fact tables, that carry change id c.
RowsOfChange(d, c) ==
    Cardinality({x \in d["title_info"] : x["change_id"] = c})
    + Cardinality({x \in d["title_tags"] : x["change_id"] = c})
    + Cardinality({x \in d["people_info"] : x["change_id"] = c})
    + Cardinality({x \in d["credits"] : x["change_id"] = c})
    + Cardinality({x \in d["credit_tags"] : x["change_id"] = c})

\* C9 (change/fact bijection): in the committed store every fact row's
\* change_id is a row of _changes, and every row of _changes is the
\* change_id of exactly one fact row over the five fact tables.
C9_ChangeFactBijection ==
    /\ \A t \in FactTables : \A x \in Committed[t] : x["change_id"] \in Committed["_changes"]
    /\ \A c \in Committed["_changes"] : RowsOfChange(Committed, c) = 1

\* Changes of three fact tables are committed, after a call that failed
\* between minting a change and inserting its fact row.
C9_Witness ==
    /\ Cardinality(Committed["_changes"]) >= 3
    /\ Committed["title_info"] # {}
    /\ Committed["people_info"] # {}
    /\ Committed["credits"] # {}
    /\ last.how = "ROLLBACK"
    /\ ~inTxn

\* store_scraped_title / store_scraped_person run alone on store d with
\* no failure: the scrape, then every fact.
RECURSIVE InsertAll(_, _, _)
InsertAll(d, sid, fs) ==
    IF fs = <<>> THEN d
    ELSE InsertAll(insert_with_change(d, sid, Head(fs).table, Head(fs).row, 0).db,
                   sid, Tail(fs))

StoreAlone(d, r) ==
    LET s == insert_new_scrape(d, Scrape(r).timestamp, 0)
    IN  InsertAll(s.db, s.id, Facts(r))

RECURSIVE Serial(_, _)
Serial(d, calls) ==
    IF calls = <<>> THEN d
    ELSE Serial(StoreAlone(d, Head(calls).data), Tail(calls))

IsPrefix(a, b) == Len(a) <= Len(b) /\ SubSeq(b, 1, Len(a)) = a

Increasing(a) == \A i, j \in 1..Len(a) : i < j => a[i] < a[j]

\* C10 (commit ordering): scopes end (commit or roll back) in the order
\* the lock was acquired; the lock is acquired in the order of the requests,
\* which for waiting callers is the order in which they began to wait; the
\* commits are in that order too, and the committed store is the store
\* that running the committed calls alone, one after the other in that
\* order, produces.
C10_CommitOrder ==
    /\ IsPrefix(exited, acquired)
    /\ Increasing(acquired)
    /\ Increasing([i \in 1..Len(log) |-> log[i].caller])
    /\ \A i \in 1..Len(waiters) : \A q \in Range(acquired) : q < waiters[i]
    /\ Increasing(waiters)
    /\ Committed = Serial(init_database(NoTables), log)

\* The holder has committed while two callers wait: the one that began to
\* wait first is woken, the other is not.
C10_Witness ==
    /\ Len(waiters) = 2
    /\ Head(waiters) \in woken
    /\ waiters[2] \notin woken
    /\ ~locked
    /\ Len(log) = 1
    /\ last.how = "COMMIT"

\* Store `a` is kept in store `b`: every row of every table of `a` is a row
\* of `b` with the same column values, the links in the same rowid order.
GrowsTo(a, b) ==
    /\ \A t \in AllTables \ {"changes"} : a[t] \subseteq b[t]
    /\ IsPrefix(a["changes"], b["changes"])

\* C11 (append-only store): no step of any call, successful or failed,
\* deletes or changes a committed row: the committed Scrape rows, Change
\* rows, link rows and fact rows of every table only grow.
C11_AppendOnly ==
    [][GrowsTo(Committed, Committed')]_vars

\* Two calls have committed, a third has failed after passing on facts and
\* was rolled back: the store holds the two scrapes and their links.
C11_Witness ==
    /\ Len(log) = 2
    /\ last.how = "ROLLBACK"
    /\ last.facts >= 1
    /\ last.caller > log[2].caller
    /\ ~inTxn
    /\ Cardinality(db["scrapes"]) = 2
    /\ Len(db["changes"]) >= 4

\* Caller p stops waiting and holds the lock in this step.
Resumes(p) == pc[p] = "waiting" /\ pc'[p] = "aenter"

\* C12 (gate liveness): when every holder's scope goes on to its end, every
\* caller that has requested the lock comes to a state where it has
\* acquired the lock, its scope has ended and its call has returned or
\* raised; a waiting caller resumes only when no caller is inside the
\* scope, it is woken by the end of a scope only, and the end of the
\* holder's scope wakes the first waiter, which is the one to resume.
C12_GateLiveness ==
    /\ \A p \in Callers :
        (pc[p] # "idle") ~>
            (pc[p] = "done" /\ p \in Range(acquired) /\ p \in Range(exited)
             /\ outcome[p] # "none")
    /\ [][\A p \in Callers :
            /\ Resumes(p) => (NoCallerInScope /\ ~locked /\ p = Head(waiters))
            /\ (pc[p] = "waiting" /\ p \notin woken /\ p \in woken') =>
                  \E q \in Callers : InScope(q) /\ ~InScope(q)'
            /\ (~InScope(p)' /\ InScope(p) /\ waiters # <<>>) =>
                  Head(waiters) \in woken']_vars

\* The third caller began to wait while the second held the lock; the
\* second scope has ended and woken it, and it is about to resume.
C12_Witness ==
    /\ Len(acquired) = 2
    /\ Len(exited) = 2
    /\ Len(waiters) = 1
    /\ Head(waiters) \in woken
    /\ pc[Head(waiters)] = "waiting"
    /\ last.caller = exited[2]
    /\ ~locked

Distinct(s) == \A i, j \in 1..Len(s) : i # j => s[i] # s[j]

\* Rows of title_info with key "language" for title id.
LanguageRows(d, id) ==
    {x \in d["title_info"] : x["title_id"] = id /\ x["key"] = "language"}

\* Rows of `rows` whose change is linked to scrape sid.
LinkedTo(d, sid, rows) ==
    {x \in rows : [id |-> x["change_id"], scrape_id |-> sid] \in Range(d["changes"])}

\* C13 (list expansion): when a title document whose languages are n
\* pairwise distinct strings commits, its scrape is linked to exactly n
\* title_info rows with key "language" for its title id, one per language
\* with that language as value (none is a joined value); when the store
\* held no row for that title before, these n rows are all the language
\* rows of the title: ["en", "fr"] gives exactly two.
C13_ListExpansion ==
    [][\A p \in Callers : (Commits(p) /\ IsTitle(data[p])) =>
        LET id     == data[p].title.id
            langs  == GetList(data[p].title, "languages")
            rows   == LanguageRows(db', id)
            linked == LinkedTo(db', scrape_id[p], rows)
        IN  Distinct(langs) =>
                /\ Cardinality(linked) = Len(langs)
                /\ {x["value"] : x \in linked} = Range(langs)
                /\ {x \in pre["title_info"] : x["title_id"] = id} = {} =>
                        (rows = linked /\ Cardinality(rows) = Len(langs))]_vars

\* The document with languages ["en", "fr"] was committed on a store with
\* no rows: two language rows, "en" and "fr".
C13_Witness ==
    /\ Len(log) = 1
    /\ last.how = "COMMIT"
    /\ IsTitle(log[1].data)
    /\ GetList(log[1].data.title, "languages") = <<"en", "fr">>
    /\ Cardinality(LanguageRows(db, "tt1")) = 2
    /\ {x["value"] : x \in LanguageRows(db, "tt1")} = {"en", "fr"}
    /\ ~inTxn

\* Caller p's insert_with_change returns normally in this step.
FactPassed(p) == pc[p] = "facts" /\ done'[p] = done[p] + 1

\* The fact caller p passes to insert_with_change next.
CurrentFact(p) == steps[p][done[p] + 1]

\* The links store b has after those of store a.
NewLinks(a, b) == SubSeq(b["changes"], Len(a["changes"]) + 1, Len(b["changes"]))

\* C14 (per-call link accounting): every insert_with_change that returns
\* normally appends exactly one link: the change id of the fact's row
\* (matched or just inserted) with the call's scrape id.  A call that
\* commits has added exactly one scrapes row, with the document's
\* timestamp, and as many links as the document emits facts, all of the
\* new scrape; title "Foo" with one cast pair: one scrape, three links.
C14_LinkAccounting ==
    [][\A p \in Callers :
        /\ FactPassed(p) =>
              \E x \in SameFact(db', CurrentFact(p)) :
                  db'["changes"] = Append(db["changes"],
                                         [id |-> x["change_id"], scrape_id |-> scrape_id[p]])
        /\ Commits(p) =>
              LET row == [id |-> scrape_id[p], timestamp |-> Scrape(data[p]).timestamp]
                  new == NewLinks(pre, db')
              IN  /\ row \notin pre["scrapes"]
                  /\ db'["scrapes"] = pre["scrapes"] \cup {row}
                  /\ IsPrefix(pre["changes"], db'["changes"])
                  /\ Len(new) = Len(Facts(data[p]))
                  /\ \A k \in 1..Len(new) : new[k].scrape_id = scrape_id[p]
                  /\ (data[p] = WithTimestamp(TitleFoo, p)) => Len(new) = 3]_vars

\* Title "Foo" with its one cast pair was committed as the second scrape,
\* on a store that held its facts: scrape 2 has three links.
C14_Witness ==
    /\ Len(log) = 2
    /\ last.how = "COMMIT"
    /\ log[2].data = WithTimestamp(TitleFoo, log[2].caller)
    /\ Cardinality(db["scrapes"]) = 2
    /\ Len(LinksOf(db, log[2].scrape_id)) = 3
    /\ \E x \in SameFact(pre, Fact("title_info", [title_id |-> "tt1", key |-> "title", value |-> "Foo"])) :
           x["change_id"] \in Range(ChangeIds(LinksOf(db, log[2].scrape_id)))
    /\ ~inTxn

\* No column of the fact is NULL.
NonNull(f) == \A c \in DOMAIN f.row : f.row[c] # NULL

\* How often fact f is among the facts fs.
Occurrences(fs, f) == Cardinality({i \in 1..Len(fs) : fs[i] = f})

\* How often the link (change_id, scrape_id) is in the store.
LinkCount(d, change_id, sid) ==
    Cardinality({k \in 1..Len(d["changes"]) :
                    d["changes"][k] = [id |-> change_id, scrape_id |-> sid]})

\* C15 (duplicate fact within one scrape): when a call passes on a non-NULL
\* fact it has passed on before, the step finds the row in its own
\* uncommitted transaction: no fact row and no Change is added, the link
\* repeats the earlier one.  When the call commits a fact it emitted more
\* than once and the store did not hold before, the store has exactly one
\* row of the fact, its one Change minted by this call, and as many links
\* (change id, scrape id) as occurrences: two for a pair listed twice.
C15_DuplicateFact ==
    [][\A p \in Callers :
        /\ (/\ FactPassed(p)
            /\ NonNull(CurrentFact(p))
            /\ \E i \in 1..done[p] : steps[p][i] = CurrentFact(p)) =>
              /\ inTxn
              /\ \A t \in FactTables : db'[t] = db[t]
              /\ db'["_changes"] = db["_changes"]
              /\ db'["changes"][Len(db'["changes"])] \in Range(NewLinks(pre, db))
        /\ Commits(p) =>
              \A i \in 1..Len(steps[p]) :
                  LET f == steps[p][i]
                  IN  (/\ NonNull(f)
                       /\ Occurrences(steps[p], f) >= 2
                       /\ SameFact(pre, f) = {}) =>
                        /\ Cardinality(SameFact(db', f)) = 1
                        /\ \A x \in SameFact(db', f) :
                            /\ x["change_id"] \in db'["_changes"] \ pre["_changes"]
                            /\ RowsOfChange(db', x["change_id"]) = 1
                            /\ LinkCount(db', x["change_id"], scrape_id[p])
                                  = Occurrences(steps[p], f)
                            /\ Len(LinksOf(db', scrape_id[p])) = Len(steps[p])]_vars

\* The document that lists the cast pair (nm1, Alice) twice was committed as
\* the first scrape: one people_info row, linked twice to scrape 1.
C15_Witness ==
    /\ Len(log) = 1
    /\ last.how = "COMMIT"
    /\ Occurrences(Facts(log[1].data),
                   Fact("people_info", [person_id |-> "nm1", key |-> "name", value |-> "Alice"])) = 2
    /\ Cardinality(db["people_info"]) = 1
    /\ \A x \in db["people_info"] : LinkCount(db, x["change_id"], log[1].scrape_id) = 2
    /\ ~inTxn

\* The facts of one filmography entry, in order: a credits fact per
\* credit_type string (one with NULL when there is none), a credit_tags
\* fact per credit tag, a title_info fact for title and for year when
\* present, a title_tags fact per embedded title tag.
ExpectedOfCredit(person_id, credit) ==
    LET n    == Max({1, Len(credit.credit_type)})
        info == credit.title_info
    IN  [i \in 1..n |->
            Fact("credits",
                 [title_id |-> credit.title_id,
                  credit_type |-> IF credit.credit_type = <<>> THEN NULL
                                  ELSE credit.credit_type[i],
                  person_id |-> person_id])]
        \o [i \in 1..Len(credit.tags) |->
            Fact("credit_tags", [title_id |-> credit.title_id, person_id |-> person_id,
                                 tag |-> credit.tags[i]])]
        \o (IF "title" \in DOMAIN info
            THEN <<Fact("title_info", [title_id |-> credit.title_id, key |-> "title",
                                       value |-> info["title"]])>>
            ELSE <<>>)
        \o (IF "year" \in DOMAIN info
            THEN <<Fact("title_info", [title_id |-> credit.title_id, key |-> "year",
                                       value |-> info["year"]])>>
            ELSE <<>>)
        \o [i \in 1..Len(GetList(info, "tags")) |->
            Fact("title_tags", [title_id |-> credit.title_id, tag |-> GetList(info, "tags")[i]])]

\* The facts of a person document: name and birthday when present, then
\* the filmography entries.
ExpectedOfPerson(person) ==
    (IF "name" \in DOMAIN person
     THEN <<Fact("people_info", [person_id |-> person.id, key |-> "name",
                                 value |-> person["name"]])>>
     ELSE <<>>)
    \o (IF "birthday" \in DOMAIN person
        THEN <<Fact("people_info", [person_id |-> person.id, key |-> "birthday",
                                    value |-> person["birthday"]])>>
        ELSE <<>>)
    \o Flatten([i \in 1..Len(GetList(person, "filmography")) |->
                  ExpectedOfCredit(person.id, GetList(person, "filmography")[i])])

\* C16 (person extractor emission): when a person document commits, the
\* store has exactly one more scrapes row (none for the embedded title
\* documents), and the call's links are, in order, one per expected fact:
\* for each filmography entry max(1, number of credit_type strings)
\* credits facts (one with NULL credit_type when the list is empty), one
\* credit_tags fact per credit tag, one title_info fact for each of title
\* and year present, one title_tags fact per embedded title tag; every
\* link is of the call's one scrape and of a row with the fact's values.
C16_PersonEmission ==
    [][\A p \in Callers : (Commits(p) /\ ~IsTitle(data[p])) =>
        LET expected == ExpectedOfPerson(data[p].person)
            new      == NewLinks(pre, db')
        IN  /\ Cardinality(db'["scrapes"]) = Cardinality(pre["scrapes"]) + 1
            /\ db'["scrapes"] \ pre["scrapes"] =
                    {[id |-> scrape_id[p], timestamp |-> data[p].person.timestamp]}
            /\ ~\E s \in db'["scrapes"] : s.timestamp = -1
            /\ Len(new) = Len(expected)
            /\ \A k \in 1..Len(new) :
                /\ new[k].scrape_id = scrape_id[p]
                /\ \E x \in SameFact(db', expected[k]) : x["change_id"] = new[k].id]_vars

\* A person document with an empty credit_type list, a credit tag and an
\* embedded year was committed: a credits row with NULL credit_type, a
\* credit_tags row and a title_info row, three links of its scrape.
C16_Witness ==
    /\ Len(log) >= 1
    /\ last.how = "COMMIT"
    /\ ~IsTitle(log[Len(log)].data)
    /\ log[Len(log)].data.person.filmography[1].credit_type = <<>>
    /\ NullCreditRows(db) # {}
    /\ db["credit_tags"] # {}
    /\ Len(LinksOf(db, log[Len(log)].scrape_id)) = 3
    /\ ~inTxn

\* C17 (frame of insert_with_change): a call that finds a matching row and
\* returns leaves every fact table, _changes and scrapes as they are and
\* appends one link; a call that finds none and returns adds exactly one
\* _changes row, one link and one row in the fact's table, and leaves the
\* other four fact tables and scrapes as they are.
C17_Frame ==
    [][\A p \in Callers : FactPassed(p) =>
        LET f == CurrentFact(p)
        IN  /\ db'["scrapes"] = db["scrapes"]
            /\ Len(db'["changes"]) = Len(db["changes"]) + 1
            /\ IsPrefix(db["changes"], db'["changes"])
            /\ \A t \in FactTables \ {f.table} : db'[t] = db[t]
            /\ IF Matching(db, f.table, f.row) # {}
               THEN /\ db'[f.table] = db[f.table]
                    /\ db'["_changes"] = db["_changes"]
               ELSE /\ db[f.table] \subseteq db'[f.table]
                    /\ Cardinality(db'[f.table]) = Cardinality(db[f.table]) + 1
                    /\ db["_changes"] \subseteq db'["_changes"]
                    /\ Cardinality(db'["_changes"]) = Cardinality(db["_changes"]) + 1]_vars

\* A call has gone through both paths: one of the facts it has passed on
\* was in the store (a link and nothing else), a later one was not (a
\* change and a row more).
C17_Witness ==
    \E p \in Callers :
        /\ pc[p] \in {"facts", "aexit"}
        /\ ~exc[p]
        /\ inTxn
        /\ \E i, j \in 1..done[p] :
            /\ i < j
            /\ NonNull(steps[p][i])
            /\ SameFact(pre, steps[p][i]) # {}
            /\ SameFact(pre, steps[p][j]) = {}
            /\ SameFact(db, steps[p][j]) # {}
        /\ Len(db["changes"]) = Len(pre["changes"]) + done[p]
        /\ Cardinality(db["_changes"]) > Cardinality(pre["_changes"])

\* Links of change c, in rowid order.
LinksOfChange(d, c) == SelectSeq(d["changes"], LAMBDA l : l.id = c)

\* Every link is of a row of _changes and of a row of scrapes; every row of
\* _changes has a link, and none of its links has a smaller scrape id than
\* its first.
LinkIntegrity(d) ==
    /\ \A k \in 1..Len(d["changes"]) :
        /\ d["changes"][k].id \in d["_changes"]
        /\ \E s \in d["scrapes"] : s.id = d["changes"][k].scrape_id
    /\ \A c \in d["_changes"] :
        /\ LinksOfChange(d, c) # <<>>
        /\ \A k \in 1..Len(LinksOfChange(d, c)) :
            LinksOfChange(d, c)[1].scrape_id <= LinksOfChange(d, c)[k].scrape_id

\* C18 (link integrity): in the committed store every link references a
\* row of _changes and a row of scrapes, every Change has a link, and the
\* first link of a Change, which the call that minted it inserted with its
\* own scrape id, is the one with the smallest scrape id.
C18_LinkIntegrity ==
    /\ [](LinkIntegrity(Committed))
    /\ [][\A p \in Callers :
            (FactPassed(p) /\ Matching(db, CurrentFact(p).table, CurrentFact(p).row) = {}) =>
                \A c \in db'["_changes"] \ db["_changes"] :
                    LinksOfChange(db', c) = <<[id |-> c, scrape_id |-> scrape_id[p]]>>]_vars

\* A Change minted by scrape 1 is linked by scrape 2 as well, both committed.
C18_Witness ==
    /\ ~inTxn
    /\ Len(log) = 2
    /\ \E c \in db["_changes"] :
        /\ Len(LinksOfChange(db, c)) >= 2
        /\ LinksOfChange(db, c)[1].scrape_id = 1
        /\ \E k \in 1..Len(LinksOfChange(db, c)) : LinksOfChange(db, c)[k].scrape_id = 2

\* The filmography entries of a person document for title id.
EntriesFor(person, id) ==
    {e \in Range(GetList(person, "filmography")) : e.title_id = id}

\* The tuples a title document and a person document have in common: the
\* person's name when the title's cast lists (person id, name); the credit
\* (title id, "actor", person id) when the cast lists the person and the
\* filmography credits the title with "actor"; the title's title and year
\* when the filmography entry embeds the same value.
SharedFacts(title, person) ==
    {Fact("people_info", [person_id |-> person.id, key |-> "name", value |-> person["name"]]) :
        c \in {c \in Range(GetList(title, "cast")) :
                  "name" \in DOMAIN person /\ c = <<person.id, person["name"]>>}}
    \cup
    {Fact("credits", [title_id |-> title.id, credit_type |-> "actor", person_id |-> person.id]) :
        c \in {c \in Range(GetList(title, "cast")) :
                  /\ c[1] = person.id
                  /\ \E e \in EntriesFor(person, title.id) : "actor" \in Range(e.credit_type)}}
    \cup
    {Fact("title_info", [title_id |-> title.id, key |-> k, value |-> title[k]]) :
        k \in {k \in {"title", "year"} :
                  /\ k \in DOMAIN title
                  /\ \E e \in EntriesFor(person, title.id) :
                        k \in DOMAIN e.title_info /\ e.title_info[k] = title[k]}}

\* The shared tuples of two documents of different kinds.
SharedBetween(a, b) ==
    IF IsTitle(a) THEN SharedFacts(a.title, b.person) ELSE SharedFacts(b.title, a.person)

\* C19 (cross-extractor dedup): when a person document commits after a
\* title document, or a title document after a person document, every
\* tuple the two have in common (a cast pair's name or "actor" credit, an
\* embedded title or year) is the single row the earlier call left, with
\* its change id: no row is added for it, and that change id is linked to
\* the earlier scrape and to the new one.
C19_CrossExtractor ==
    [][\A p \in Callers : \A i \in 1..Len(log) :
        (Commits(p) /\ IsTitle(log[i].data) # IsTitle(data[p])) =>
            \A f \in SharedBetween(log[i].data, data[p]) :
                /\ Cardinality(SameFact(pre, f)) = 1
                /\ SameFact(db', f) = SameFact(pre, f)
                /\ \A x \in SameFact(pre, f) :
                    /\ LinkCount(pre, x["change_id"], log[i].scrape_id) >= 1
                    /\ LinkCount(db', x["change_id"], scrape_id[p]) >= 1]_vars

\* Title "Foo" with the cast pair (nm1, Alice) was committed, then the
\* person nm1 "Alice" credited as "actor" in tt1 "Foo": one people_info
\* row, one credits row and one title_info row, each linked to both scrapes.
C19_Witness ==
    /\ Len(log) = 2
    /\ last.how = "COMMIT"
    /\ IsTitle(log[1].data)
    /\ ~IsTitle(log[2].data)
    /\ Cardinality(SharedBetween(log[1].data, log[2].data)) = 3
    /\ \A f \in SharedBetween(log[1].data, log[2].data) :
        /\ Cardinality(SameFact(db, f)) = 1
        /\ \A x \in SameFact(db, f) :
            /\ LinkCount(db, x["change_id"], log[1].scrape_id) >= 1
            /\ LinkCount(db, x["change_id"], log[2].scrape_id) >= 1
    /\ ~inTxn

\* C20 (schema initialization is idempotent): init_database run on a store
\* that has the tables, empty or with the rows any calls have left (the
\* committed store, and the connection's view of it), gives the same
\* store: all eight tables, every row unchanged; run twice on a new file
\* it gives what one run gives.
C20_InitIdempotent ==
    /\ DOMAIN Committed = AllTables
    /\ init_database(Committed) = Committed
    /\ init_database(db) = db
    /\ init_database(init_database(NoTables)) = init_database(NoTables)

\* A store with two committed scrapes and rows in four fact tables, which
\* init_database leaves as it is.
C20_Witness ==
    /\ ~inTxn
    /\ Len(log) >= 2
    /\ Cardinality(db["scrapes"]) >= 2
    /\ Cardinality({t \in FactTables : db[t] # {}}) >= 4
    /\ Len(db["changes"]) >= 5
    /\ init_database(db) = db

==========================================================================
